---- MODULE Spec2Model ----
(***************************************************************************)
(* Model of the consistent hashing ring of gobwas/hashring: the Ring       *)
(* facade (Insert/Update/Delete/Get/Has), the rebuild loop, the collision  *)
(* engine (insertPoint/deletePoint, generation stacks, collisions map, fix *)
(* queue) and the weight -> points interpolation.                          *)
(*                                                                         *)
(* Two revisions of the Ring are in the source tree: ring.go (rebuild      *)
(* calls line() directly) and the revision with Ring.numPoints and         *)
(* Ring.Has.  The variable rev selects which of the two is running.        *)
(*                                                                         *)
(* Weights are float64 in the source; the model draws them from small      *)
(* integers and computes the interpolation in exact rational arithmetic    *)
(* (which agrees with float64 on the whole range of the bounds).           *)
(***************************************************************************)
EXTENDS Integers, Sequences, FiniteSets, TLC

\* ------------------------------------------------------------------ bounds
NumItems == 2
MaxWeight == 2
MagicFactor == 2
NumValues == 3
MaxGen == 2
MaxInc == 2

DefaultMagicFactor == 1020

Items == 1..NumItems
Weights == (-1)..MaxWeight
Revisions == {"ring.go", "numPoints"}

Nil == <<>>
NoPanic == ""

SetMin(S) == CHOOSE x \in S : \A y \in S : x <= y

SetKey(f, k, v) == [x \in (DOMAIN f) \cup {k} |-> IF x = k THEN v ELSE f[x]]

DelKey(f, k) == [x \in (DOMAIN f) \ {k} |-> f[x]]

SeqSet(s) == {s[i] : i \in 1..Len(s)}

\* ------------------------------------------------------------ magic factor
magicFactor == IF MagicFactor > 0 THEN MagicFactor ELSE DefaultMagicFactor

\* Largest value a digest can take in the model.
MaxValue == NumValues + NumItems * magicFactor - 1

KeyDigests == 0..MaxValue

\* ------------------------------------------------------------------ hashing
\* The hash functions the ring is run with: h = [a, b, c] gives the digest
\* (a*item + b*index + c*generation) mod NumValues for generations below
\* MaxGen, so that points of different items, indices and generations can
\* collide; from generation MaxGen on every point has a value of its own.
HashFamily == [a : 0..(NumValues - 1), b : 0..(NumValues - 1), c : 0..(NumValues - 1)]

encodeSuffix(g, i) == <<g, i>>

\* digest of an item with no suffix is the bucket id; items are told apart
\* by their digests.
digest(h, x, suffix) ==
    IF suffix = <<>> THEN x
    ELSE IF suffix[1] >= MaxGen
         THEN NumValues + (x - 1) * magicFactor + suffix[2]
         ELSE (h.a * x + h.b * suffix[2] + h.c * suffix[1]) % NumValues

\* ----------------------------------------------------------- ordered keys
compare(x0, x1) == IF x0 < x1 THEN -1 ELSE IF x0 > x1 THEN 1 ELSE 0

\* A point object is named <<item, index, incarnation>>; its mutable part
\* (val, stack) lives in the points function.
pointCompare(pts, p, q) == compare(pts[p].val, pts[q].val)

collisionCompare(p, q) ==
    IF compare(digest(Nil, p[1], <<>>), digest(Nil, q[1], <<>>)) # 0
    THEN compare(digest(Nil, p[1], <<>>), digest(Nil, q[1], <<>>))
    ELSE p[2] - q[2]

searchCompare(pts, s, q) == compare(s, pts[q].val)

generation(pts, p) == Len(pts[p].stack)

\* proceed that stores the new value and forgets the one it replaces.
proceedNoPush(pts, p, v) ==
    [pts EXCEPT ![p] = [val |-> v, stack |-> @.stack]]

proceed(pts, p, v) ==
    [pts EXCEPT ![p] = [val |-> v, stack |-> Append(@.stack, @.val)]]

rewind(pts, p) ==
    [pts EXCEPT ![p] = [val |-> @.stack[Len(@.stack)],
                        stack |-> SubSeq(@.stack, 1, Len(@.stack) - 1)]]

\* ------------------------------------------------- ordered map (avl.Tree)
\* A tree is the sequence of its items in order.  The operations take the
\* item x and c, the results of x.Compare(t[i]) for the items of the tree.
pointOrder(pts, p, t) == [i \in 1..Len(t) |-> pointCompare(pts, p, t[i])]

collisionOrder(p, t) == [i \in 1..Len(t) |-> collisionCompare(p, t[i])]

searchOrder(pts, s, t) == [i \in 1..Len(t) |-> searchCompare(pts, s, t[i])]

avlInsert(t, x, c) ==
    LET eq == {i \in 1..Len(t) : c[i] = 0}
        k == Cardinality({i \in 1..Len(t) : c[i] > 0})
    IN IF eq # {}
       THEN [tree |-> t, item |-> t[SetMin(eq)]]
       ELSE [tree |-> SubSeq(t, 1, k) \o <<x>> \o SubSeq(t, k + 1, Len(t)),
             item |-> Nil]

avlDelete(t, x, c) ==
    LET eq == {i \in 1..Len(t) : c[i] = 0}
    IN IF eq = {}
       THEN [tree |-> t, item |-> Nil]
       ELSE [tree |-> SubSeq(t, 1, SetMin(eq) - 1) \o SubSeq(t, SetMin(eq) + 1, Len(t)),
             item |-> t[SetMin(eq)]]

avlMin(t) == IF Len(t) = 0 THEN Nil ELSE t[1]

\* Successor(s): the smallest item x with s.Compare(x) < 0.
avlSuccessor(t, s, c) ==
    LET gt == {i \in 1..Len(t) : c[i] < 0}
    IN IF gt = {} THEN Nil ELSE t[SetMin(gt)]

\* ------------------------------------------------------- collision engine
\* The operators below work on a record m of the fields of the Ring
\* (buckets, points, ring, collisions, fix, minWeight, maxWeight), the
\* writer's working tree root and the panic message (NoPanic while running).
Panic(m, msg) == [m EXCEPT !.panic = msg]

\* insertPoint that leaves the point found in the tree where it is and sends
\* only the new point to the fix queue.
insertPointKeep(m, p) ==
    LET v == m.points[p].val
        c == IF v \in DOMAIN m.collisions THEN m.collisions[v] ELSE <<>>
        fixIns == avlInsert(c, p, collisionOrder(p, c))
        ins == avlInsert(m.root, p, pointOrder(m.points, p, m.root))
    IN IF m.panic # NoPanic THEN m
       ELSE IF Len(c) # 0
       THEN IF fixIns.item # Nil
            THEN Panic(m, "hashring: internal error: mustInsert failed")
            ELSE [m EXCEPT !.collisions = SetKey(@, v, fixIns.tree),
                           !.fix = Append(@, p)]
       ELSE IF ins.item = Nil
       THEN [m EXCEPT !.root = ins.tree]
       ELSE [m EXCEPT !.collisions = SetKey(@, v, fixIns.tree),
                      !.fix = Append(@, p)]

\* insertPoint that does not look for a collision set at the point's value
\* before it tries the tree.
insertPointUnreserved(m, p) ==
    LET v == m.points[p].val
        c == IF v \in DOMAIN m.collisions THEN m.collisions[v] ELSE <<>>
        ins == avlInsert(m.root, p, pointOrder(m.points, p, m.root))
        d == ins.item
        del == avlDelete(ins.tree, d, pointOrder(m.points, d, ins.tree))
        c1 == avlInsert(c, p, collisionOrder(p, c))
        c2 == avlInsert(c1.tree, d, collisionOrder(d, c1.tree))
    IN IF m.panic # NoPanic THEN m
       ELSE IF d = Nil
       THEN [m EXCEPT !.root = ins.tree]
       ELSE IF del.item = Nil
       THEN Panic(m, "hashring: internal error")
       ELSE IF c1.item # Nil \/ c2.item # Nil
       THEN Panic(m, "hashring: internal error: mustInsert failed")
       ELSE [m EXCEPT !.root = del.tree,
                      !.collisions = SetKey(@, v, c2.tree),
                      !.fix = @ \o <<d, p>>]

\* insertPoint that queues the new point before the point it displaced.
insertPointNewFirst(m, p) ==
    LET v == m.points[p].val
        c == IF v \in DOMAIN m.collisions THEN m.collisions[v] ELSE <<>>
        fixIns == avlInsert(c, p, collisionOrder(p, c))
        ins == avlInsert(m.root, p, pointOrder(m.points, p, m.root))
        d == ins.item
        del == avlDelete(ins.tree, d, pointOrder(m.points, d, ins.tree))
        c1 == avlInsert(c, p, collisionOrder(p, c))
        c2 == avlInsert(c1.tree, d, collisionOrder(d, c1.tree))
    IN IF m.panic # NoPanic THEN m
       ELSE IF Len(c) # 0
       THEN IF fixIns.item # Nil
            THEN Panic(m, "hashring: internal error: mustInsert failed")
            ELSE [m EXCEPT !.collisions = SetKey(@, v, fixIns.tree),
                           !.fix = Append(@, p)]
       ELSE IF d = Nil
       THEN [m EXCEPT !.root = ins.tree]
       ELSE IF del.item = Nil
       THEN Panic(m, "hashring: internal error")
       ELSE IF c1.item # Nil \/ c2.item # Nil
       THEN Panic(m, "hashring: internal error: mustInsert failed")
       ELSE [m EXCEPT !.root = del.tree,
                      !.collisions = SetKey(@, v, c2.tree),
                      !.fix = @ \o <<p, d>>]

insertPoint(m, p) ==
    LET v == m.points[p].val
        c == IF v \in DOMAIN m.collisions THEN m.collisions[v] ELSE <<>>
        fixIns == avlInsert(c, p, collisionOrder(p, c))
        ins == avlInsert(m.root, p, pointOrder(m.points, p, m.root))
        d == ins.item
        del == avlDelete(ins.tree, d, pointOrder(m.points, d, ins.tree))
        c1 == avlInsert(c, p, collisionOrder(p, c))
        c2 == avlInsert(c1.tree, d, collisionOrder(d, c1.tree))
    IN IF m.panic # NoPanic THEN m
       ELSE IF Len(c) # 0
       THEN IF fixIns.item # Nil
            THEN Panic(m, "hashring: internal error: mustInsert failed")
            ELSE [m EXCEPT !.collisions = SetKey(@, v, fixIns.tree),
                           !.fix = Append(@, p)]
       ELSE IF d = Nil
       THEN [m EXCEPT !.root = ins.tree]
       ELSE IF del.item = Nil
       THEN Panic(m, "hashring: internal error")
       ELSE IF c1.item # Nil \/ c2.item # Nil
       THEN Panic(m, "hashring: internal error: mustInsert failed")
       ELSE [m EXCEPT !.root = del.tree,
                      !.collisions = SetKey(@, v, c2.tree),
                      !.fix = @ \o <<d, p>>]

\* rollback that keeps a collision set while it has any member left.
RECURSIVE rollbackKeepOne(_, _)
rollbackKeepOne(u, p) ==
    LET pts == rewind(u.m.points, p)
        v == pts[p].val
        m1 == [u.m EXCEPT !.points = pts]
        del == avlDelete(m1.collisions[v], p, collisionOrder(p, m1.collisions[v]))
        twin == avlMin(del.tree)
        td == avlDelete(m1.root, twin, pointOrder(pts, twin, m1.root))
        m2 == [m1 EXCEPT !.collisions = DelKey(@, v), !.root = td.tree]
    IN IF u.m.panic # NoPanic \/ generation(u.m.points, p) = 0 THEN u
       ELSE IF v \notin DOMAIN m1.collisions
       THEN rollbackKeepOne([u EXCEPT !.m = m1], p)
       ELSE IF del.item = Nil
       THEN [u EXCEPT !.m = Panic(m1, "hashring: internal error: mustDelete failed")]
       ELSE IF Len(del.tree) > 0
       THEN rollbackKeepOne([u EXCEPT !.m = [m1 EXCEPT !.collisions = SetKey(@, v, del.tree)]], p)
       ELSE IF twin = Nil
       THEN [u EXCEPT !.m = Panic([m1 EXCEPT !.collisions = DelKey(@, v)],
                                  "interface conversion: interface is nil")]
       ELSE IF td.item # Nil
       THEN rollbackKeepOne([m |-> m2,
                      toDelete |-> Append(u.toDelete, twin),
                      toInsert |-> Append(u.toInsert, twin)], p)
       ELSE rollbackKeepOne([u EXCEPT !.m = m2], p)

\* The loop `for p.generation() > 0` of deletePoint; u carries the ring
\* record and the two local lists toDelete and toInsert.
RECURSIVE rollback(_, _)
rollback(u, p) ==
    LET pts == rewind(u.m.points, p)
        v == pts[p].val
        m1 == [u.m EXCEPT !.points = pts]
        del == avlDelete(m1.collisions[v], p, collisionOrder(p, m1.collisions[v]))
        twin == avlMin(del.tree)
        td == avlDelete(m1.root, twin, pointOrder(pts, twin, m1.root))
        m2 == [m1 EXCEPT !.collisions = DelKey(@, v), !.root = td.tree]
    IN IF u.m.panic # NoPanic \/ generation(u.m.points, p) = 0 THEN u
       ELSE IF v \notin DOMAIN m1.collisions
       THEN rollback([u EXCEPT !.m = m1], p)
       ELSE IF del.item = Nil
       THEN [u EXCEPT !.m = Panic(m1, "hashring: internal error: mustDelete failed")]
       ELSE IF Len(del.tree) > 1
       THEN rollback([u EXCEPT !.m = [m1 EXCEPT !.collisions = SetKey(@, v, del.tree)]], p)
       ELSE IF twin = Nil
       THEN [u EXCEPT !.m = Panic([m1 EXCEPT !.collisions = DelKey(@, v)],
                                  "interface conversion: interface is nil")]
       ELSE IF td.item # Nil
       THEN rollback([m |-> m2,
                      toDelete |-> Append(u.toDelete, twin),
                      toInsert |-> Append(u.toInsert, twin)], p)
       ELSE rollback([u EXCEPT !.m = m2], p)

\* The outer `for` of deletePoint: unwind p, then every twin queued.
RECURSIVE processing(_, _)
processing(u, p) ==
    LET u1 == rollback(u, p)
    IN IF u1.m.panic # NoPanic \/ Len(u1.toDelete) = 0 THEN u1
       ELSE processing([u1 EXCEPT !.toDelete = Tail(@)], Head(u1.toDelete))

\* The last loop of deletePoint: insert back the twins removed above.
RECURSIVE restoreTwins(_, _)
restoreTwins(m, toInsert) ==
    IF Len(toInsert) = 0 THEN m
    ELSE restoreTwins(insertPoint(m, Head(toInsert)), Tail(toInsert))

\* deletePoint that unwinds the point also when tree.Delete did not find it.
deletePointAlways(m, p) ==
    LET del == avlDelete(m.root, p, pointOrder(m.points, p, m.root))
        u == processing([m |-> [m EXCEPT !.root = del.tree],
                         toDelete |-> <<>>, toInsert |-> <<>>], p)
    IN IF m.panic # NoPanic THEN m
       ELSE restoreTwins(u.m, u.toInsert)

deletePoint(m, p) ==
    LET del == avlDelete(m.root, p, pointOrder(m.points, p, m.root))
        u == processing([m |-> [m EXCEPT !.root = del.tree],
                         toDelete |-> <<>>, toInsert |-> <<>>], p)
    IN IF m.panic # NoPanic THEN m
       ELSE IF del.item = Nil THEN m
       ELSE restoreTwins(u.m, u.toInsert)

\* ------------------------------------------------------------- weights
updateWeight(m, w) ==
    [m EXCEPT !.minWeight = IF @ = 0 \/ w < @ THEN w ELSE @,
              !.maxWeight = IF @ = 0 \/ w > @ THEN w ELSE @]

\* The loop of changeWeight over the buckets map (min and max do not depend
\* on the order of the visit).
RECURSIVE scanWeights(_, _)
scanWeights(m, ids) ==
    LET id == SetMin(ids)
        w == m.buckets[id].weight
    IN IF ids = {} THEN m
       ELSE scanWeights(IF w > 0 THEN updateWeight(m, w) ELSE m, ids \ {id})

changeWeight(m, prev, next) ==
    IF prev # m.minWeight /\ prev # m.maxWeight
    THEN updateWeight(m, next)
    ELSE scanWeights([m EXCEPT !.minWeight = 0, !.maxWeight = 0], DOMAIN m.buckets)

\* ------------------------------------------------- weight -> point count
\* A float64 that is a ratio of two integers, or NaN (0/0).
Frac(n, d) == [nan |-> FALSE, num |-> n, den |-> d]

NaN == [nan |-> TRUE, num |-> 0, den |-> 1]

\* minWeight / maxWeight; maxWeight = 0 happens only with minWeight = 0.
fdiv(x, y) == IF y = 0 THEN NaN ELSE Frac(x, y)

fmulInt(k, f) == IF f.nan THEN NaN ELSE Frac(k * f.num, f.den)

\* math.Ceil
ceil(f) == IF f.nan THEN NaN ELSE Frac(-((-f.num) \div f.den), 1)

\* int(n / d): conversion of a float64 to int truncates toward zero.
truncInt(n, d) ==
    LET nn == IF d < 0 THEN -n ELSE n
        dd == IF d < 0 THEN -d ELSE d
    IN IF nn >= 0 THEN nn \div dd ELSE -((-nn) \div dd)

\* line(x0, y0, x1, y1): x0, y0, x1 are integers, y1 is a Frac or NaN.
\* The closure returned by the source is the record of its arguments.
line(x0, y0, x1, y1) ==
    [malformed |-> x0 = x1 /\ (y1.nan \/ y0 * y1.den # y1.num),
     zero |-> FALSE, x0 |-> x0, y0 |-> y0, x1 |-> x1, y1 |-> y1]

\* Application of the closure returned by line (or by numPoints) to x.
lineAt(l, x) ==
    LET N == (l.y1.num - l.y0 * l.y1.den) * (x - l.x0)
                + l.y0 * l.y1.den * (l.x1 - l.x0)
        D == l.y1.den * (l.x1 - l.x0)
    IN IF l.zero THEN 0
       ELSE IF l.x0 = l.x1 THEN truncInt(2 * l.y0 + 1, 2)
       ELSE truncInt(2 * N + D, 2 * D)

\* Ring.numPoints of the later revision; in ring.go, the first statement
\* of rebuild.
numPoints(r, m) ==
    IF r = "numPoints"
    THEN IF m.maxWeight = 0
         THEN [line(0, 0, 0, Frac(0, 1)) EXCEPT !.zero = TRUE]
         ELSE line(m.maxWeight, magicFactor, m.minWeight,
                   fmulInt(ceil(Frac(magicFactor, 1)).num, fdiv(m.minWeight, m.maxWeight)))
    ELSE line(m.maxWeight, magicFactor, m.minWeight,
              ceil(fmulInt(magicFactor, fdiv(m.minWeight, m.maxWeight))))

\* ------------------------------------------------------------- rebuild
\* Point objects some structure of the ring still refers to.
Referenced(m) ==
    UNION {SeqSet(m.buckets[id].points) : id \in DOMAIN m.buckets}
      \cup SeqSet(m.root) \cup SeqSet(m.ring) \cup SeqSet(m.fix)
      \cup UNION {SeqSet(m.collisions[v]) : v \in DOMAIN m.collisions}

\* Unreferenced point objects are garbage.
collect(m) == [m EXCEPT !.points = [p \in Referenced(m) |-> @[p]]]

FreeInc(m, x, i) == {k \in 0..(MaxInc - 1) : <<x, i, k>> \notin DOMAIN m.points}

\* newPoint allocates a point object <<item, index, incarnation>>.
newPoint(m, x, i, v) ==
    [m EXCEPT !.points = SetKey(@, <<x, i, SetMin(FreeInc(m, x, i))>>,
                                [val |-> v, stack |-> <<>>])]

\* Target number of points of bucket id in the running rebuild.
bucketSize(r, m, id) ==
    IF m.buckets[id].weight # 0
    THEN lineAt(numPoints(r, m), m.buckets[id].weight)
    ELSE 0

\* First statements of rebuild: numPoints and the read of the root.
rebuildStart(r, m) ==
    IF numPoints(r, m).malformed
    THEN Panic(m, "hashring: internal error: malformed points")
    ELSE [m EXCEPT !.root = m.ring]

\* shrinkPoint that drops the first point of the bucket instead of the last.
shrinkPointFirst(m, id) ==
    LET ps == m.buckets[id].points
        p == ps[1]
    IN deletePoint([m EXCEPT !.buckets[id].points = Tail(ps)], p)

\* One iteration of the first inner loop: drop the last point of the bucket.
shrinkPoint(m, id) ==
    LET ps == m.buckets[id].points
        p == ps[Len(ps)]
    IN deletePoint([m EXCEPT !.buckets[id].points = SubSeq(ps, 1, Len(ps) - 1)], p)

\* One iteration of the second inner loop: add the point of the next index.
\* When the model has no incarnation left for the new object the rebuild
\* stops with over set (a bound of the model, not a state of the program).
growPoint(h, m, id) ==
    LET i == Len(m.buckets[id].points)
        v == digest(h, m.buckets[id].item, encodeSuffix(0, i))
        p == <<m.buckets[id].item, i, SetMin(FreeInc(m, m.buckets[id].item, i))>>
        m1 == newPoint(m, m.buckets[id].item, i, v)
    IN IF FreeInc(m, m.buckets[id].item, i) = {}
       THEN [m EXCEPT !.over = TRUE]
       ELSE insertPoint([m1 EXCEPT !.buckets[id].points = Append(@, p)], p)

\* dropBucket that leaves the bucket of a deleted item in the map.
dropBucketNever(m, id) == m

\* The end of the visit of a bucket: `if b.weight == 0 { delete(r.buckets, id) }`.
dropBucket(m, id) ==
    IF m.buckets[id].weight = 0 THEN [m EXCEPT !.buckets = DelKey(@, id)] ELSE m

\* The body of `for id, b := range r.buckets` for one bucket.
RECURSIVE visitBucket(_, _, _, _)
visitBucket(h, r, m, id) ==
    LET n == Len(m.buckets[id].points)
        size == bucketSize(r, m, id)
    IN IF m.panic # NoPanic \/ m.over THEN m
       ELSE IF n > size THEN visitBucket(h, r, shrinkPoint(m, id), id)
       ELSE IF n < size THEN visitBucket(h, r, growPoint(h, m, id), id)
       ELSE dropBucket(m, id)

\* The range loop over the buckets, visited in the given order.
RECURSIVE rangeBuckets(_, _, _, _)
rangeBuckets(h, r, m, order) ==
    IF Len(order) = 0 THEN m
    ELSE rangeBuckets(h, r, visitBucket(h, r, m, Head(order)), Tail(order))

\* fixPoint that hashes with the generation the point already has.
fixPointSameGen(h, m) ==
    LET p == Head(m.fix)
        g == generation(m.points, p)
        v == digest(h, p[1], encodeSuffix(g, p[2]))
    IN insertPoint([m EXCEPT !.fix = Tail(@), !.points = proceed(@, p, v)], p)

\* One iteration of the loop draining the fix queue.
fixPoint(h, m) ==
    LET p == Head(m.fix)
        g == generation(m.points, p)
        v == digest(h, p[1], encodeSuffix(g + 1, p[2]))
    IN insertPoint([m EXCEPT !.fix = Tail(@), !.points = proceed(@, p, v)], p)

RECURSIVE drainFix(_, _)
drainFix(h, m) ==
    IF m.panic # NoPanic \/ Len(m.fix) = 0 THEN m ELSE drainFix(h, fixPoint(h, m))

\* Last statements of rebuild: the new root is stored under ringMu.
publish(m) == IF m.panic # NoPanic THEN m ELSE [m EXCEPT !.ring = m.root]

rebuild(h, r, m, order) ==
    collect(publish(drainFix(h, rangeBuckets(h, r, rebuildStart(r, m), order))))

\* ------------------------------------------------------------ the Ring
VARIABLES buckets, points, ring, root, collisions, fix, minWeight, maxWeight,
          panic, hash, rev, mu, rlock, pc, call, visit, cur, ret

ringVars == <<buckets, points, ring, root, collisions, fix, minWeight, maxWeight>>
procVars == <<mu, rlock, pc, call, visit, cur>>
vars == <<buckets, points, ring, root, collisions, fix, minWeight, maxWeight,
          panic, hash, rev, mu, rlock, pc, call, visit, cur, ret>>

Writers == {"w1"}
Readers == {"r1"}

\* The goroutines of the runs with two writers.
MoreWriters == Writers \cup {"w2"}

Procs == MoreWriters \cup Readers

NoItem == 0

\* No bucket is being visited (the ids of the buckets are digests of items).
NoBucket == NoItem

\* The fields of the Ring as a record.
ringRec ==
    [buckets |-> buckets, points |-> points, ring |-> ring, root |-> root,
     collisions |-> collisions, fix |-> fix, minWeight |-> minWeight,
     maxWeight |-> maxWeight, panic |-> panic, over |-> FALSE]

Store(m) ==
    /\ buckets' = m.buckets
    /\ points' = m.points
    /\ ring' = m.ring
    /\ root' = m.root
    /\ collisions' = m.collisions
    /\ fix' = m.fix
    /\ minWeight' = m.minWeight
    /\ maxWeight' = m.maxWeight
    /\ panic' = m.panic

newBucket(id, x, w) == [id |-> id, item |-> x, weight |-> w, points |-> <<>>]

\* Insert between the check for a duplicate and the rebuild.
insertBucket(h, m, x, w) ==
    updateWeight([m EXCEPT !.buckets = SetKey(@, digest(h, x, <<>>),
                                              newBucket(digest(h, x, <<>>), x, w))], w)

\* update between the check for a missing item and the rebuild.
updateBucket(h, m, x, w) ==
    changeWeight([m EXCEPT !.buckets[digest(h, x, <<>>)].weight = w],
                 m.buckets[digest(h, x, <<>>)].weight, w)

\* The orders in which a range loop can visit the keys of a map.
Orders(S) ==
    {o \in [1..Cardinality(S) -> S] : \A i, j \in 1..Cardinality(S) : o[i] = o[j] => i = j}

\* getItem without the wrap-around to the minimum.
getItemNoWrap(pts, t, d) ==
    LET succ == avlSuccessor(t, d, searchOrder(pts, d, t))
    IN IF succ = Nil THEN NoItem ELSE succ[1]

\* Get: the successor of the digest of the key, or the minimum.
getItem(pts, t, d) ==
    LET succ == avlSuccessor(t, d, searchOrder(pts, d, t))
        item == IF succ = Nil THEN avlMin(t) ELSE succ
    IN IF item = Nil THEN NoItem ELSE item[1]

\* A lookup in the buckets map that never finds the item.
hasItemNever(h, b, x) == FALSE

hasItem(h, b, x) == digest(h, x, <<>>) \in DOMAIN b

Result(op, arg, w, err, item, has) ==
    [op |-> op, arg |-> arg, weight |-> w, err |-> err, item |-> item, has |-> has]

Init ==
    /\ buckets = <<>>
    /\ points = <<>>
    /\ ring = <<>>
    /\ root = <<>>
    /\ collisions = <<>>
    /\ fix = <<>>
    /\ minWeight = 0
    /\ maxWeight = 0
    /\ panic = NoPanic
    /\ hash \in HashFamily
    /\ rev \in Revisions
    /\ mu = Nil
    /\ rlock = {}
    /\ pc = [p \in Procs |-> "idle"]
    /\ call = [p \in Procs |-> Nil]
    /\ visit = {}
    /\ cur = NoBucket
    /\ ret = Nil

\* No call is running and the result of the last one was taken by its caller.
Quiet == panic = NoPanic /\ ret = Nil /\ \A p \in Procs : pc[p] = "idle"

\* The caller takes the result of the call that returned.
Return ==
    /\ ret # Nil
    /\ ret' = Nil
    /\ UNCHANGED <<ringVars, panic, hash, rev, procVars>>

\* ---------------------------------------------- operations, one step each
Insert(x, w) ==
    /\ Quiet
    /\ IF w <= 0
       THEN /\ panic' = "hashring: weight must be greater than zero"
            /\ UNCHANGED <<ringVars, ret>>
       ELSE IF hasItem(hash, buckets, x)
       THEN /\ ret' = Result("Insert", x, w, TRUE, NoItem, FALSE)
            /\ UNCHANGED <<ringVars, panic>>
       ELSE \E order \in Orders(DOMAIN insertBucket(hash, ringRec, x, w).buckets) :
              LET m == rebuild(hash, rev, insertBucket(hash, ringRec, x, w), order)
              IN /\ ~m.over
                 /\ Store(m)
                 /\ ret' = IF m.panic = NoPanic
                           THEN Result("Insert", x, w, FALSE, NoItem, FALSE)
                           ELSE ret
    /\ UNCHANGED <<hash, rev, procVars>>

\* update that creates the bucket of a missing item instead of failing.
updateUpsert(x, w, op) ==
    LET m0 == IF digest(hash, x, <<>>) \in DOMAIN buckets
              THEN updateBucket(hash, ringRec, x, w)
              ELSE insertBucket(hash, ringRec, x, w)
    IN \E order \in Orders(DOMAIN m0.buckets) :
           LET m == rebuild(hash, rev, m0, order)
           IN /\ ~m.over
              /\ Store(m)
              /\ ret' = IF m.panic = NoPanic
                        THEN Result(op, x, w, FALSE, NoItem, FALSE)
                        ELSE ret

update(x, w, op) ==
    IF ~hasItem(hash, buckets, x)
    THEN /\ ret' = Result(op, x, w, TRUE, NoItem, FALSE)
         /\ UNCHANGED <<ringVars, panic>>
    ELSE \E order \in Orders(DOMAIN buckets) :
           LET m == rebuild(hash, rev, updateBucket(hash, ringRec, x, w), order)
           IN /\ ~m.over
              /\ Store(m)
              /\ ret' = IF m.panic = NoPanic
                        THEN Result(op, x, w, FALSE, NoItem, FALSE)
                        ELSE ret

Update(x, w) ==
    /\ Quiet
    /\ IF w <= 0
       THEN /\ panic' = "hashring: weight must be greater than zero"
            /\ UNCHANGED <<ringVars, ret>>
       ELSE update(x, w, "Update")
    /\ UNCHANGED <<hash, rev, procVars>>

Delete(x) ==
    /\ Quiet
    /\ update(x, 0, "Delete")
    /\ UNCHANGED <<hash, rev, procVars>>

Get(d) ==
    /\ Quiet
    /\ ret' = Result("Get", d, 0, FALSE, getItem(points, ring, d), FALSE)
    /\ UNCHANGED <<ringVars, panic, hash, rev, procVars>>

Has(x) ==
    /\ Quiet
    /\ rev = "numPoints"
    /\ ret' = Result("Has", x, 0, FALSE, NoItem, hasItem(hash, buckets, x))
    /\ UNCHANGED <<ringVars, panic, hash, rev, procVars>>

Next ==
    \/ \E x \in Items, w \in Weights : Insert(x, w)
    \/ \E x \in Items, w \in Weights : Update(x, w)
    \/ \E x \in Items : Delete(x)
    \/ \E d \in KeyDigests : Get(d)
    \/ \E x \in Items : Has(x)
    \/ Return

Spec == Init /\ [][Next]_vars

\* ------------------------------- mutations of a ring with more weights
\* The mutations alone, on one more item and one more weight than Next has:
\* an item whose weight lies strictly between the smallest and the largest
\* weight needs three items and three weights.
MoreItems == 1..(NumItems + 1)

MoreWeights == 1..(MaxWeight + 1)

NextWeights ==
    \/ \E x \in MoreItems, w \in MoreWeights : Insert(x, w)
    \/ \E x \in MoreItems, w \in MoreWeights : Update(x, w)
    \/ \E x \in MoreItems : Delete(x)
    \/ Return

\* The hash functions of these runs: the ones that tell the items and the
\* indexes of their points apart.
WeightHashes == {h \in HashFamily : h.a = 1 /\ h.b = 1}

InitWeights == Init /\ hash \in WeightHashes

SpecWeights == InitWeights /\ [][NextWeights]_vars

\* The mutations alone with two weights far apart: the smaller one is less
\* than 1 / (2 * magicFactor) of the larger one, so that magicFactor times
\* their ratio is below one half.
FarWeights == {1, 2 * MagicFactor + 1}

NextFar ==
    \/ \E x \in Items, w \in FarWeights : Insert(x, w)
    \/ \E x \in Items, w \in FarWeights : Update(x, w)
    \/ \E x \in Items : Delete(x)
    \/ Return

SpecFar == InitWeights /\ [][NextFar]_vars

\* ------------------------------------- operations, interleaved by steps
\* A writer goroutine: idle -> lock -> locked -> range/bucket -> fix ->
\* publish -> swap -> unlock -> idle.  A reader goroutine: idle -> get/has -> idle.
Running == panic = NoPanic /\ ret = Nil

Goto(p, l) == pc' = [pc EXCEPT ![p] = l]

\* A goroutine in Has reads the buckets map holding ringMu.RLock only: a
\* write of the map at that moment is a data race, which the runtime may
\* report by stopping the program.
MapRace == \E r \in Readers : pc[r] = "has"

\* WCall that takes r.mu before it checks the weight.
WCallLocked(w, op, x, wt) ==
    /\ Running
    /\ pc[w] = "idle"
    /\ op = "Delete" => wt = 0
    /\ IF op # "Delete" /\ wt <= 0
       THEN /\ Nil = mu
            /\ mu' = w
            /\ panic' = "hashring: weight must be greater than zero"
            /\ UNCHANGED <<pc, call>>
       ELSE /\ call' = [call EXCEPT ![w] = Result(op, x, wt, FALSE, NoItem, FALSE)]
            /\ Goto(w, "lock")
            /\ UNCHANGED <<panic, mu>>
    /\ UNCHANGED <<ringVars, hash, rev, rlock, visit, cur, ret>>

\* The call is made: the weight is checked before any lock is taken.
WCall(w, op, x, wt) ==
    /\ Running
    /\ pc[w] = "idle"
    /\ op = "Delete" => wt = 0
    /\ IF op # "Delete" /\ wt <= 0
       THEN /\ panic' = "hashring: weight must be greater than zero"
            /\ UNCHANGED <<pc, call>>
       ELSE /\ call' = [call EXCEPT ![w] = Result(op, x, wt, FALSE, NoItem, FALSE)]
            /\ Goto(w, "lock")
            /\ UNCHANGED panic
    /\ UNCHANGED <<ringVars, hash, rev, mu, rlock, visit, cur, ret>>

\* WLock that does not wait for r.mu.
WLockFree(w) ==
    /\ Running
    /\ pc[w] = "lock"
    /\ mu' = w
    /\ Goto(w, "locked")
    /\ UNCHANGED <<ringVars, panic, hash, rev, rlock, call, visit, cur, ret>>

\* r.mu.Lock()
WLock(w) ==
    /\ Running
    /\ pc[w] = "lock"
    /\ Nil = mu
    /\ mu' = w
    /\ Goto(w, "locked")
    /\ UNCHANGED <<ringVars, panic, hash, rev, rlock, call, visit, cur, ret>>

\* WLookup that creates the bucket of a missing item in Update and Delete
\* instead of returning the error.
WLookupUpsert(w) ==
    /\ Running
    /\ pc[w] = "locked"
    /\ IF call[w].op = "Insert" /\ hasItem(hash, buckets, call[w].arg)
       THEN /\ call' = [call EXCEPT ![w].err = TRUE]
            /\ Goto(w, "unlock")
            /\ UNCHANGED <<ringVars, panic, visit>>
       ELSE LET m0 == IF hasItem(hash, buckets, call[w].arg)
                      THEN updateBucket(hash, ringRec, call[w].arg, call[w].weight)
                      ELSE insertBucket(hash, ringRec, call[w].arg, call[w].weight)
                m == rebuildStart(rev, m0)
            IN /\ Store(m)
               /\ visit' = DOMAIN m.buckets
               /\ Goto(w, "range")
               /\ UNCHANGED call
    /\ UNCHANGED <<hash, rev, mu, rlock, cur, ret>>

\* The lookup in the buckets map, the change of the bucket and of the
\* weights, and the first statements of rebuild.
WLookup(w) ==
    /\ Running
    /\ pc[w] = "locked"
    /\ IF hasItem(hash, buckets, call[w].arg) = (call[w].op = "Insert")
       THEN /\ call' = [call EXCEPT ![w].err = TRUE]
            /\ Goto(w, "unlock")
            /\ UNCHANGED <<ringVars, panic, visit>>
       ELSE LET m0 == IF call[w].op = "Insert"
                      THEN insertBucket(hash, ringRec, call[w].arg, call[w].weight)
                      ELSE updateBucket(hash, ringRec, call[w].arg, call[w].weight)
                m == rebuildStart(rev, m0)
            IN \/ /\ Store(m)
                  /\ visit' = DOMAIN m.buckets
                  /\ Goto(w, "range")
                  /\ UNCHANGED call
               \/ /\ call[w].op = "Insert"
                  /\ MapRace
                  /\ panic' = "fatal error: concurrent map read and map write"
                  /\ UNCHANGED <<ringVars, visit, pc, call>>
    /\ UNCHANGED <<hash, rev, mu, rlock, cur, ret>>

\* `for id, b := range r.buckets`: the next bucket, in any order.
WRange(w) ==
    /\ Running
    /\ pc[w] = "range"
    /\ IF visit = {}
       THEN /\ Goto(w, "fix")
            /\ UNCHANGED <<visit, cur>>
       ELSE \E id \in visit :
              /\ cur' = id
              /\ visit' = visit \ {id}
              /\ Goto(w, "bucket")
    /\ UNCHANGED <<ringVars, panic, hash, rev, mu, rlock, call, ret>>

\* One deletePoint or insertPoint for the bucket being visited, or the end
\* of the visit.
WBucket(w) ==
    /\ Running
    /\ pc[w] = "bucket"
    /\ LET n == Len(buckets[cur].points)
           size == bucketSize(rev, ringRec, cur)
           m == IF n > size THEN collect(shrinkPoint(ringRec, cur))
                ELSE IF n < size THEN collect(growPoint(hash, ringRec, cur))
                ELSE dropBucket(ringRec, cur)
       IN \/ /\ ~m.over
             /\ Store(m)
             /\ IF n = size
                THEN Goto(w, "range") /\ cur' = NoBucket
                ELSE UNCHANGED <<pc, cur>>
          \/ /\ n = size
             /\ buckets[cur].weight = 0
             /\ MapRace
             /\ panic' = "fatal error: concurrent map read and map write"
             /\ UNCHANGED <<ringVars, pc, cur>>
    /\ UNCHANGED <<hash, rev, mu, rlock, call, visit, ret>>

\* WFix with `if` in place of `for`: one fix-up, then the swap.
WFixOnce(w) ==
    /\ Running
    /\ pc[w] = "fix"
    /\ IF Len(fix) = 0
       THEN UNCHANGED <<ringVars, panic>>
       ELSE Store(collect(fixPoint(hash, ringRec)))
    /\ Goto(w, "publish")
    /\ UNCHANGED <<hash, rev, mu, rlock, call, visit, cur, ret>>

\* One iteration of the loop over the fix queue.
WFix(w) ==
    /\ Running
    /\ pc[w] = "fix"
    /\ IF Len(fix) = 0
       THEN /\ Goto(w, "publish")
            /\ UNCHANGED <<ringVars, panic>>
       ELSE /\ Store(collect(fixPoint(hash, ringRec)))
            /\ UNCHANGED pc
    /\ UNCHANGED <<hash, rev, mu, rlock, call, visit, cur, ret>>

\* r.ringMu.Lock(): the writer waits until no goroutine holds ringMu.
WPublishLock(w) ==
    /\ Running
    /\ pc[w] = "publish"
    /\ rlock = {}
    /\ rlock' = {w}
    /\ Goto(w, "swap")
    /\ UNCHANGED <<ringVars, panic, hash, rev, mu, call, visit, cur, ret>>

\* WPublish that returns from rebuild without r.ringMu.Unlock().
WPublishHold(w) ==
    /\ Running
    /\ pc[w] = "swap"
    /\ Store(collect(publish(ringRec)))
    /\ Goto(w, "unlock")
    /\ UNCHANGED <<hash, rev, mu, rlock, call, visit, cur, ret>>

\* r.ring = root; r.ringMu.Unlock()
WPublish(w) ==
    /\ Running
    /\ pc[w] = "swap"
    /\ Store(collect(publish(ringRec)))
    /\ rlock' = rlock \ {w}
    /\ Goto(w, "unlock")
    /\ UNCHANGED <<hash, rev, mu, call, visit, cur, ret>>

\* The deferred r.mu.Unlock() and the return.
WUnlock(w) ==
    /\ Running
    /\ pc[w] = "unlock"
    /\ mu' = Nil
    /\ ret' = call[w]
    /\ call' = [call EXCEPT ![w] = Nil]
    /\ Goto(w, "idle")
    /\ UNCHANGED <<ringVars, panic, hash, rev, rlock, visit, cur>>

\* The tree a reader walks is out of order when a point in it was given
\* another value after the tree was built.
Torn(pts, t) == \E i, j \in 1..Len(t) : i < j /\ pts[t[i]].val >= pts[t[j]].val

\* What Get can return: on a tree in order, the successor or the minimum;
\* on a tree out of order, the item of any of its points.
getOutcomes(pts, t, d) ==
    IF Torn(pts, t) THEN {t[i][1] : i \in 1..Len(t)} ELSE {getItem(pts, t, d)}

\* Get: r.ringMu.RLock().  The digest d of the key was computed before.
RGet(r) ==
    /\ Running
    /\ pc[r] = "idle"
    /\ rlock \cap MoreWriters = {}
    /\ rlock' = rlock \cup {r}
    /\ Goto(r, "get")
    /\ UNCHANGED <<ringVars, panic, hash, rev, mu, call, visit, cur, ret>>

\* Get: Successor, Min, r.ringMu.RUnlock() and the return.
RGetDone(r, d) ==
    /\ Running
    /\ pc[r] = "get"
    /\ \E x \in getOutcomes(points, ring, d) :
         ret' = Result("Get", d, 0, FALSE, x, FALSE)
    /\ rlock' = rlock \ {r}
    /\ Goto(r, "idle")
    /\ UNCHANGED <<ringVars, panic, hash, rev, mu, call, visit, cur>>

\* Has: r.ringMu.RLock().  The digest of x was computed before.
RHas(r) ==
    /\ Running
    /\ rev = "numPoints"
    /\ pc[r] = "idle"
    /\ rlock \cap MoreWriters = {}
    /\ rlock' = rlock \cup {r}
    /\ Goto(r, "has")
    /\ UNCHANGED <<ringVars, panic, hash, rev, mu, call, visit, cur, ret>>

\* Has: the read of r.buckets, the deferred RUnlock and the return.
RHasDone(r, x) ==
    /\ Running
    /\ pc[r] = "has"
    /\ ret' = Result("Has", x, 0, FALSE, NoItem, hasItem(hash, buckets, x))
    /\ rlock' = rlock \ {r}
    /\ Goto(r, "idle")
    /\ UNCHANGED <<ringVars, panic, hash, rev, mu, call, visit, cur>>

NextConc ==
    \/ \E w \in Writers, x \in Items, wt \in Weights : WCall(w, "Insert", x, wt)
    \/ \E w \in Writers, x \in Items, wt \in Weights : WCall(w, "Update", x, wt)
    \/ \E w \in Writers, x \in Items : WCall(w, "Delete", x, 0)
    \/ \E w \in Writers : WLock(w)
    \/ \E w \in Writers : WLookup(w)
    \/ \E w \in Writers : WRange(w)
    \/ \E w \in Writers : WBucket(w)
    \/ \E w \in Writers : WFix(w)
    \/ \E w \in Writers : WPublishLock(w)
    \/ \E w \in Writers : WPublish(w)
    \/ \E w \in Writers : WUnlock(w)
    \/ \E r \in Readers : RGet(r)
    \/ \E r \in Readers, d \in KeyDigests : RGetDone(r, d)
    \/ \E r \in Readers : RHas(r)
    \/ \E r \in Readers, x \in Items : RHasDone(r, x)
    \/ Return

SpecConc == Init /\ [][NextConc]_vars

\* The writer's calls alone, step by step.
NextSteps ==
    \/ \E w \in Writers, x \in Items, wt \in Weights : WCall(w, "Insert", x, wt)
    \/ \E w \in Writers, x \in Items, wt \in Weights : WCall(w, "Update", x, wt)
    \/ \E w \in Writers, x \in Items : WCall(w, "Delete", x, 0)
    \/ \E w \in Writers : WLock(w)
    \/ \E w \in Writers : WLookup(w)
    \/ \E w \in Writers : WRange(w)
    \/ \E w \in Writers : WBucket(w)
    \/ \E w \in Writers : WFix(w)
    \/ \E w \in Writers : WPublishLock(w)
    \/ \E w \in Writers : WPublish(w)
    \/ \E w \in Writers : WUnlock(w)
    \/ Return

SpecSteps == Init /\ [][NextSteps]_vars

\* --------------------------------------- two writers and a reader of Get
\* Each writer inserts the items of its own range, one call after the
\* other, while a reader calls Get.
ItemsOf(w) == {x \in Items : (x % 2 = 1) <=> (w \in Writers)}

\* The next Insert of a writer: an item of its range that it has not
\* inserted yet.
WInsert(w, x, wt) ==
    /\ x \in ItemsOf(w)
    /\ ~hasItem(hash, buckets, x)
    /\ WCall(w, "Insert", x, wt)

NextWriters ==
    \/ \E w \in MoreWriters, x \in Items, wt \in 1..MaxWeight : WInsert(w, x, wt)
    \/ \E w \in MoreWriters : WLock(w)
    \/ \E w \in MoreWriters : WLookup(w)
    \/ \E w \in MoreWriters : WRange(w)
    \/ \E w \in MoreWriters : WBucket(w)
    \/ \E w \in MoreWriters : WFix(w)
    \/ \E w \in MoreWriters : WPublishLock(w)
    \/ \E w \in MoreWriters : WPublish(w)
    \/ \E w \in MoreWriters : WUnlock(w)
    \/ \E r \in Readers : RGet(r)
    \/ \E r \in Readers, d \in KeyDigests : RGetDone(r, d)
    \/ Return

SpecWriters == Init /\ [][NextWriters]_vars

\* The goroutine p is inside a call and its next step does not wait: every
\* step can be taken at once except r.mu.Lock() and r.ringMu.Lock().
Runnable(p) ==
    /\ Running
    /\ \/ pc[p] \in {"locked", "range", "bucket", "fix", "swap", "unlock", "get"}
       \/ pc[p] = "lock" /\ Nil = mu
       \/ pc[p] = "publish" /\ rlock = {}

\* The goroutine p takes a step: it moves on, or it stays in the loop over
\* the points of a bucket or over the fix queue and changes the ring.
GoStep(p) ==
    \/ pc'[p] # pc[p]
    \/ pc[p] \in {"bucket", "fix"} /\ ringVars' # ringVars

\* The same goroutines under the scheduler: a goroutine that can take a
\* step again and again takes it (no step is enabled while a result waits
\* for its caller, so a runnable goroutine is not enabled without a break),
\* sync.Mutex and sync.RWMutex do not starve a goroutine that waits in Lock
\* or RLock, and the caller takes the result of a call.
Fairness ==
    /\ \A p \in Procs : ([]<>Runnable(p)) => ([]<><<GoStep(p)>>_<<pc, ringVars>>)
    /\ WF_vars(Return)

SpecLive == SpecWriters /\ Fairness

\* ============================================================== claims
\* No call is running (its result may still wait to be taken).
Settled == panic = NoPanic /\ \A p \in Procs : pc[p] = "idle"

Returned(op) == Settled /\ ret # Nil /\ ret.op = op

\* The in-order sequence of the points of a tree.
RingView(pts, t) ==
    [i \in 1..Len(t) |-> [value |-> pts[t[i]].val, item |-> t[i][1],
                          index |-> t[i][2], generation |-> generation(pts, t[i])]]

\* The collisions map, its points named by item and index.
CollisionsView(c) == [v \in DOMAIN c |-> {<<p[1], p[2]>> : p \in SeqSet(c[v])}]

\* Items on the ring, and the weight of each.
Present == {x \in Items : digest(hash, x, <<>>) \in DOMAIN buckets}

Mapping == [x \in Present |-> buckets[digest(hash, x, <<>>)].weight]

PointsOf(x) == {i \in 1..Len(ring) : ring[i][1] = x}

EmptyRing ==
    [buckets |-> <<>>, points |-> <<>>, ring |-> <<>>, root |-> <<>>,
     collisions |-> <<>>, fix |-> <<>>, minWeight |-> 0, maxWeight |-> 0,
     panic |-> NoPanic, over |-> FALSE]

Ascending(S) == CHOOSE o \in Orders(S) : \A i, j \in 1..Cardinality(S) : i < j => o[i] < o[j]

\* The ring left by inserting the items of the mapping f one after the
\* other on an empty ring, each rebuild visiting the buckets in ascending
\* order of their ids.
RECURSIVE InsertAll(_, _, _)
InsertAll(m, f, xs) ==
    IF xs = {} THEN m
    ELSE LET x == SetMin(xs)
             m0 == insertBucket(hash, m, x, f[x])
         IN InsertAll(rebuild(hash, rev, m0, Ascending(DOMAIN m0.buckets)), f, xs \ {x})

\* C1: Order independence.  Whatever sequence of successful
\* Insert/Update/Delete calls led to the current item-to-weight mapping,
\* the ring tree has the in-order sequence of (value, item, index) and the
\* generations of the ring built by inserting the items of that mapping one
\* by one on an empty ring; so any two histories ending in the same mapping
\* give the same tree.
C1_OrderIndependence ==
    Settled =>
        /\ InsertAll(EmptyRing, Mapping, Present).panic = NoPanic
        /\ RingView(points, ring)
             = RingView(InsertAll(EmptyRing, Mapping, Present).points,
                        InsertAll(EmptyRing, Mapping, Present).ring)

\* What a rebuild leaves behind, as far as a later call can tell.
Outcome(m) ==
    [tree |-> RingView(m.points, m.ring), collisions |-> CollisionsView(m.collisions),
     panic |-> m.panic]

SameForAllOrders(m0) ==
    \A o1, o2 \in Orders(DOMAIN m0.buckets) :
        Outcome(rebuild(hash, rev, m0, o1)) = Outcome(rebuild(hash, rev, m0, o2))

\* C2: The ring tree, the generations and the collisions map left by a
\* rebuild do not depend on the order in which the range loop visits the
\* buckets: from every state the ring can be in, every Insert, Update and
\* Delete gives the same result for all orders.
C2_VisitOrderIrrelevant ==
    Quiet =>
        \A x \in Items, w \in Weights :
            /\ (w > 0 /\ x \notin Present) => SameForAllOrders(insertBucket(hash, ringRec, x, w))
            /\ (w >= 0 /\ x \in Present) => SameForAllOrders(updateBucket(hash, ringRec, x, w))

\* C3: Once Delete(x) has returned nil, and until x is inserted again (x is
\* not in the buckets map), Has(x) is false, the ring tree has no point of
\* x and no Get returns x.
C3_DeletedItemGone ==
    Settled =>
        \A x \in Items \ Present :
            /\ ~hasItem(hash, buckets, x)
            /\ PointsOf(x) = {}
            /\ \A d \in KeyDigests : getItem(points, ring, d) # x

\* C4: Reader atomicity.  While a reader is between RLock and RUnlock of
\* Get, no point of the published tree is given another value by the
\* writer (proceed in the fix step, rewind in deletePoint).
C4_ReaderAtomicity ==
    [][(\E r \in Readers : pc[r] = "get") =>
           \A i \in 1..Len(ring) :
               /\ ring[i] \in DOMAIN points'
               /\ points'[ring[i]].val = points[ring[i]].val]_vars

\* A goroutine at one of these steps reads or writes the buckets map, the
\* collisions map, the fix queue or minWeight/maxWeight.
GuardedSteps == {"locked", "range", "bucket", "fix", "has"}

\* C5: Every goroutine that reads or writes the buckets map, the collisions
\* map, the fix queue or the weight bounds holds mu; so Has does not read
\* the buckets map while a writer is adding or removing a bucket.
C5_GuardedByMu ==
    /\ \A p \in Procs : pc[p] \in GuardedSteps => mu = p
    /\ ~(\E r \in Readers, w \in Writers : pc[r] = "has" /\ pc[w] \in {"locked", "bucket"})

RingValues == {points[ring[i]].val : i \in 1..Len(ring)}

OwnerOf(v) == {ring[i][1] : i \in {j \in 1..Len(ring) : points[ring[j]].val = v}}

\* C6: Get(key) on a ring tree that is not empty returns the item owning
\* the point with the smallest value strictly greater than digest(key), and
\* the owner of the point with the minimum value when no value is greater.
C6_GetSuccessor ==
    (Returned("Get") /\ Len(ring) > 0) =>
        LET greater == {v \in RingValues : v > ret.arg}
        IN OwnerOf(IF greater # {} THEN SetMin(greater) ELSE SetMin(RingValues)) = {ret.item}

\* A Get that wrapped around: no point is greater than the digest of the key.
C6_Witness ==
    /\ Returned("Get")
    /\ Len(ring) >= 2
    /\ \A v \in RingValues : v <= ret.arg
    /\ ret.item \in Present

\* C7: Get returns nil if and only if the ring holds no item, and an item
\* it returns is on the ring.
C7_GetNilIffEmpty ==
    Returned("Get") =>
        /\ ret.item = NoItem <=> Present = {}
        /\ ret.item # NoItem => ret.item \in Present

\* C8: Delete of the only item on the ring does not panic and returns nil;
\* it leaves no bucket, an empty ring tree and minWeight = maxWeight = 0
\* (the ring is as before the first Insert, which a later Insert needs).
C8_DeleteOnlyItem ==
    [][\A x \in Items :
          (Present = {x} /\ Delete(x)) =>
              /\ panic' = NoPanic
              /\ ret' # Nil /\ ~ret'.err
              /\ buckets' = <<>>
              /\ ring' = <<>>
              /\ minWeight' = 0 /\ maxWeight' = 0]_vars

\* C9: Insert(x, w) of an item that is on the ring returns an error and
\* changes nothing: buckets (so the weight of x), points, ring tree,
\* collisions map, fix queue and minWeight/maxWeight are as before.
C9_InsertDuplicate ==
    [][\A x \in Items, w \in Weights :
          (w > 0 /\ digest(hash, x, <<>>) \in DOMAIN buckets /\ Insert(x, w)) =>
              /\ panic' = NoPanic
              /\ ret' # Nil /\ ret'.op = "Insert" /\ ret'.arg = x /\ ret'.err
              /\ UNCHANGED ringVars]_vars

\* An Insert of an item that was on the ring with points has returned.
C9_Witness ==
    /\ Returned("Insert")
    /\ ret.err
    /\ ret.arg \in Present
    /\ PointsOf(ret.arg) # {}
    /\ buckets[digest(hash, ret.arg, <<>>)].weight # ret.weight

\* C10: Update(x, w) and Delete(x) of an item that is not on the ring
\* return an error and change nothing: from the lookup the call goes to the
\* unlock and the return without a step of rebuild (range loop, fix loop,
\* publish), and buckets, points, ring tree, collisions map, fix queue and
\* minWeight/maxWeight are as before.
C10_UpdateDeleteAbsent ==
    [][\A w \in Writers :
          /\ (/\ pc[w] = "locked"
              /\ call[w].op \in {"Update", "Delete"}
              /\ digest(hash, call[w].arg, <<>>) \notin DOMAIN buckets)
             => (pc'[w] = "unlock" /\ call'[w].err /\ UNCHANGED ringVars)
          /\ (pc[w] = "unlock" /\ call[w].err)
             => (pc'[w] = "idle" /\ ret' # Nil /\ ret'.err /\ UNCHANGED ringVars)]_vars

\* A Delete of an item that is not on a ring holding another item has
\* returned.
C10_Witness ==
    /\ Returned("Delete")
    /\ ret.err
    /\ ret.arg \notin Present
    /\ Present # {}
    /\ Len(ring) > 0

\* C11: Insert(x, w) and Update(x, w) with w <= 0 panic, whether or not
\* x is on the ring, with no lock taken (mu is free before and after the
\* call, ringMu is as before) and no field of the ring changed; and a bucket
\* has weight 0 only while a Delete of its item is running.
C11_NonPositiveWeight ==
    [][/\ \A w \in Writers, x \in Items, wt \in Weights, op \in {"Insert", "Update"} :
            (wt <= 0 /\ WCall(w, op, x, wt)) =>
                /\ panic' = "hashring: weight must be greater than zero"
                /\ UNCHANGED ringVars
                /\ Nil = mu /\ Nil = mu' /\ rlock' = rlock
       /\ \A id \in DOMAIN buckets' :
            buckets'[id].weight <= 0 =>
                \E w \in Writers :
                    /\ call'[w] # Nil
                    /\ call'[w].op = "Delete"
                    /\ digest(hash, call'[w].arg, <<>>) = id]_vars

\* A call with a weight that is not positive has panicked on a ring that
\* holds an item.
C11_Witness ==
    /\ panic = "hashring: weight must be greater than zero"
    /\ Present # {}
    /\ Len(ring) > 0
    /\ mu = Nil

\* C12: Has(x) returns true if and only if x is on the ring.  The items on
\* the ring are none at the start, one more after each Insert that returns
\* nil, one less after each Delete that returns nil, and the same after an
\* Update and after every call that returns an error; Get and Has change
\* nothing.
C12_HasIffPresent ==
    [][(rev = "numPoints" /\ panic' = NoPanic) =>
          /\ (ret = Nil /\ ret' # Nil /\ ret'.op = "Has") =>
                 (ret'.has <=> ret'.arg \in Present)
          /\ (ret = Nil /\ ret' # Nil /\ ret'.op \in {"Insert", "Update", "Delete"}) =>
                 Present' = IF ret'.err THEN Present
                            ELSE IF ret'.op = "Insert" THEN Present \cup {ret'.arg}
                            ELSE IF ret'.op = "Delete" THEN Present \ {ret'.arg}
                            ELSE Present
          /\ (ret = Nil /\ ret' # Nil /\ ret'.op = "Insert" /\ ~ret'.err) =>
                 ret'.arg \notin Present
          /\ (ret' = Nil \/ (ret = Nil /\ ret'.op \in {"Get", "Has"})) =>
                 Present' = Present]_vars

\* Has has returned true for an item while another item, deleted or never
\* inserted, is not on the ring that still has points.
C12_Witness ==
    /\ Returned("Has")
    /\ ret.has
    /\ Present # Items
    /\ Len(ring) > 0

\* The ring after a successful Insert(x, w), its rebuild visiting the
\* buckets in the order o.
Inserted(x, w, o) == rebuild(hash, rev, insertBucket(hash, ringRec, x, w), o)

\* The ring after Delete(x) on the ring m, its rebuild visiting the buckets
\* in the order o.
Deleted(m, x, o) == rebuild(hash, rev, updateBucket(hash, m, x, 0), o)

\* C13: Insert then Delete is a round trip.  From every ring and for every
\* item x that is not on it, after Insert(x, w) has returned nil Delete(x)
\* ends without panic and leaves the ring tree as it was before the Insert:
\* the same points in the same order, each with the value and the
\* generation it had.
C13_InsertDeleteRoundTrip ==
    Quiet =>
        \A x \in Items \ Present, w \in 1..MaxWeight :
            \A o1, o2 \in Orders(DOMAIN buckets \cup {digest(hash, x, <<>>)}) :
                (Inserted(x, w, o1).panic = NoPanic /\ ~Inserted(x, w, o1).over) =>
                    \/ Deleted(Inserted(x, w, o1), x, o2).over
                    \/ /\ Deleted(Inserted(x, w, o1), x, o2).panic = NoPanic
                       /\ RingView(Deleted(Inserted(x, w, o1), x, o2).points,
                                   Deleted(Inserted(x, w, o1), x, o2).ring)
                            = RingView(points, ring)

\* The ring after Update(x, w) on the ring m, its rebuild visiting the
\* buckets in the order o.
Updated(m, x, w, o) == rebuild(hash, rev, updateBucket(hash, m, x, w), o)

\* C14: Update is reversible.  From every ring, for every item x on it with
\* weight w1 and every weight w2, after Update(x, w2) has returned nil
\* Update(x, w1) ends without panic and leaves the ring tree as it was
\* before the two updates: the same points in the same order, each with the
\* value and the generation it had.
C14_UpdateReversible ==
    Quiet =>
        \A x \in Present, w2 \in 1..MaxWeight :
            \A o1, o2 \in Orders(DOMAIN buckets) :
                (Updated(ringRec, x, w2, o1).panic = NoPanic
                   /\ ~Updated(ringRec, x, w2, o1).over) =>
                    \/ Updated(Updated(ringRec, x, w2, o1), x, Mapping[x], o2).over
                    \/ /\ Updated(Updated(ringRec, x, w2, o1), x, Mapping[x], o2).panic
                            = NoPanic
                       /\ RingView(Updated(Updated(ringRec, x, w2, o1), x, Mapping[x], o2).points,
                                   Updated(Updated(ringRec, x, w2, o1), x, Mapping[x], o2).ring)
                            = RingView(points, ring)

\* The rings that Insert(x, w) for the items x of seq, one after the other,
\* can leave when started on a ring of the set M, over all the orders in
\* which the rebuilds can visit the buckets; a ring on which an Insert did
\* not return is left out.
RECURSIVE Builds(_, _, _)
Builds(M, w, seq) ==
    IF Len(seq) = 0 THEN M
    ELSE Builds({m \in UNION {{rebuild(hash, rev, insertBucket(hash, m0, Head(seq), w), o) :
                                 o \in Orders(DOMAIN m0.buckets
                                                \cup {digest(hash, Head(seq), <<>>)})} :
                              m0 \in M} :
                   m.panic = NoPanic /\ ~m.over},
                w, Tail(seq))

\* The values of a ring tree in order, each with the item that owns it.
OwnersView(m) == [i \in 1..Len(m.ring) |-> <<m.points[m.ring[i]].val, m.ring[i][1]>>]

\* One point of each item of S has the same value at generation 0, the
\* items having n points each.
SharedValue(S, n) ==
    \E v \in KeyDigests :
        \A x \in S : \E i \in 0..(n - 1) : digest(hash, x, encodeSuffix(0, i)) = v

Fresh == Quiet /\ buckets = <<>> /\ ring = <<>> /\ collisions = <<>> /\ points = <<>>

\* C15: On a ring with no item, for every set S of two or more items with a
\* point each at the same generation-0 value and every weight w, all the
\* permutations of the Inserts of the items of S with weight w give the same
\* ring tree: the same values, owned by the same items, in the same order.
C15_CollidingInsertsCommute ==
    Fresh =>
        \A S \in SUBSET Items, w \in 1..MaxWeight :
            (Cardinality(S) >= 2 /\ SharedValue(S, magicFactor)) =>
                Cardinality({OwnersView(m) :
                               m \in UNION {Builds({ringRec}, w, seq) : seq \in Orders(S)}}) <= 1

\* All the items were inserted with the same weight on a ring with no
\* item, points of two items collided at generation 0, and the tree is the
\* one every permutation of the Inserts gives.
C15_Witness ==
    /\ Quiet
    /\ Cardinality(Present) >= 2
    /\ \A x \in Present : Mapping[x] = maxWeight
    /\ SharedValue(Present, magicFactor)
    /\ \E v \in DOMAIN collisions : Cardinality({p[1] : p \in SeqSet(collisions[v])}) >= 2
    /\ \A seq \in Orders(Present) :
           \E m \in Builds({EmptyRing}, maxWeight, seq) : OwnersView(m) = OwnersView(ringRec)

\* C16: Minimal relocation on delete.  On a ring whose items all have the
\* same weight, after Delete(x) has returned nil every key that mapped to an
\* item y other than x before the call maps to y after it.
C16_MinimalRelocation ==
    [][\A x \in Present :
          (/\ \A y \in Present : Mapping[y] = Mapping[x]
           /\ Delete(x)
           /\ panic' = NoPanic) =>
              \A d \in KeyDigests :
                  getItem(points, ring, d) \in Present \ {x} =>
                      getItem(points', ring', d) = getItem(points, ring, d)]_vars

\* The positive weights of the buckets of the map.
PositiveWeights == {buckets[id].weight : id \in DOMAIN buckets} \ {w \in Weights : w <= 0}

\* The largest weight of the items on the ring, 0 when there is none.
LargestWeight ==
    IF PositiveWeights = {} THEN 0
    ELSE CHOOSE w \in PositiveWeights : \A v \in PositiveWeights : v <= w

\* The smallest weight of the items on the ring, 0 when there is none.
SmallestWeight ==
    IF PositiveWeights = {} THEN 0
    ELSE CHOOSE w \in PositiveWeights : \A v \in PositiveWeights : w <= v

\* C17: After every completed mutation every item whose weight is the largest
\* weight on the ring owns exactly magicFactor points of the ring, and no item
\* owns more than magicFactor points.
C17_MaxWeightPoints ==
    Settled =>
        /\ \A x \in Items : Cardinality(PointsOf(x)) <= magicFactor
        /\ \A x \in Present :
               Mapping[x] = LargestWeight => Cardinality(PointsOf(x)) = magicFactor

\* C18: When the smallest weight m on the ring is below the largest weight
\* M, after every completed mutation an item of weight m owns exactly
\* ceil(magicFactor * m / M) points.
C18_MinWeightPoints ==
    (Settled /\ SmallestWeight < LargestWeight) =>
        \A id \in DOMAIN buckets :
            buckets[id].weight = SmallestWeight =>
                Len(buckets[id].points)
                    = ceil(Frac(magicFactor * SmallestWeight, LargestWeight)).num

\* C19: After every completed Insert, Update or Delete, minWeight and
\* maxWeight are the smallest and the largest positive weight of the buckets
\* of the map, and 0 when no bucket has a positive weight.
C19_WeightBounds ==
    Settled => (minWeight = SmallestWeight /\ maxWeight = LargestWeight)

\* C20: After every completed mutation every bucket of the map has a positive
\* weight w and exactly numPoints(w) points, numPoints being the line over
\* the smallest and the largest positive weight of the buckets.
C20_PointCount ==
    Settled =>
        \A id \in DOMAIN buckets :
            /\ buckets[id].weight > 0
            /\ Len(buckets[id].points)
                 = lineAt(numPoints(rev, [minWeight |-> SmallestWeight,
                                          maxWeight |-> LargestWeight]),
                          buckets[id].weight)

\* The steps of a writer between the bucket lookup and the publish, with
\* the deferred unlock.
Critical == {"locked", "range", "bucket", "fix", "publish", "swap", "unlock"}

\* The ring that Insert(x, weights[x]) for the items x of seq, one call after
\* the other, can leave when started on a ring of the set M.
RECURSIVE Sequential(_, _, _)
Sequential(M, weights, seq) ==
    IF Len(seq) = 0 THEN M
    ELSE Sequential({m \in UNION {{rebuild(hash, rev,
                                           insertBucket(hash, m0, Head(seq), weights[Head(seq)]), o) :
                                      o \in Orders(DOMAIN m0.buckets
                                                     \cup {digest(hash, Head(seq), <<>>)})} :
                                   m0 \in M} :
                        m.panic = NoPanic /\ ~m.over},
                    weights, Tail(seq))

\* C21: Concurrent writers are serialized.  At most one goroutine is between
\* the bucket lookup and the publish; every Insert of writers that insert
\* disjoint sets of items succeeds, no inserted item is lost, and whenever no
\* writer is in an Insert the ring is the ring of the same Inserts made one
\* after the other in some order.
C21_WritersSerialized ==
    /\ [](Cardinality({w \in MoreWriters : pc[w] \in Critical}) <= 1)
    /\ [](\A w \in MoreWriters : pc[w] \in Critical => mu = w)
    /\ [][/\ \A w \in MoreWriters :
                (pc[w] = "unlock" /\ pc'[w] = "idle") => (~ret'.err /\ ret'.arg \in Present')
          /\ Present \subseteq Present']_vars
    /\ []((panic = NoPanic /\ \A w \in MoreWriters : pc[w] \notin Critical) =>
             \E seq \in Orders(Present) :
                 \E m \in Sequential({EmptyRing}, Mapping, seq) :
                     /\ RingView(m.points, m.ring) = RingView(points, ring)
                     /\ CollisionsView(m.collisions) = CollisionsView(collisions)
                     /\ m.minWeight = minWeight /\ m.maxWeight = maxWeight)

\* Both writers have inserted an item; the second one waited for r.mu while
\* the first one was rebuilding.
C21_Witness ==
    /\ Present = Items
    /\ Len(ring) >= 2
    /\ ret # Nil /\ ret.op = "Insert" /\ ~ret.err
    /\ \A w \in MoreWriters : pc[w] = "idle"
    /\ panic = NoPanic

\* C22: No deadlock.  With goroutines that call Get again and again and
\* writers that insert their items, every Get returns and every Insert of
\* every writer returns.
C22_NoDeadlock ==
    /\ \A r \in Readers : (pc[r] = "get") ~> (pc[r] = "idle")
    /\ \A w \in MoreWriters : (pc[w] = "lock") ~> (pc[w] = "idle")

\* C23: A writer holds ringMu in exclusive mode only for the assignment that
\* stores the new root: it takes the lock after the fix queue was drained,
\* changes nothing but r.ring while it holds it and releases it with that
\* step; so a goroutine that calls Get waits for a writer only during the
\* swap.
C23_ExclusiveOnlyForSwap ==
    /\ [](\A w \in MoreWriters : w \in rlock => pc[w] = "swap")
    /\ [][\A w \in MoreWriters :
            /\ (w \in rlock' /\ w \notin rlock) =>
                   (pc[w] = "publish" /\ Len(fix) = 0 /\ UNCHANGED ringVars)
            /\ (w \in rlock /\ pc'[w] = pc[w]) => (w \in rlock' /\ UNCHANGED ringVars)
            /\ (w \in rlock /\ pc'[w] # pc[w]) =>
                   /\ w \notin rlock'
                   /\ ring' = root
                   /\ UNCHANGED <<buckets, root, collisions, fix, minWeight, maxWeight>>]_vars
    /\ [](\A r \in Readers :
            (Running /\ pc[r] = "idle" /\ \A w \in MoreWriters : pc[w] # "swap") =>
                ENABLED RGet(r))

\* A writer holds ringMu for the swap of a root that differs from the
\* published one, in an Insert that drained a fix queue; the reader waits.
C23_Witness ==
    /\ \E w \in MoreWriters : pc[w] = "swap" /\ w \in rlock
    /\ \A r \in Readers : pc[r] = "idle" /\ ~ENABLED RGet(r)
    /\ root # ring
    /\ Len(ring) > 0
    /\ collisions # <<>>

\* C24: Every Get reads a version of the ring that a mutation published, the
\* newest one: the published tree, with the values and the generations of
\* its points, changes only in the swap at the end of a mutation, and a
\* mutation that returns nil went through the swap once while one that
\* returns an error did not.
C24_PublishedVersions ==
    [][/\ RingView(points', ring') # RingView(points, ring) =>
              \E w \in Writers : pc[w] = "swap" /\ pc'[w] = "unlock"
       /\ \A w \in Writers :
              (pc[w] # "unlock" /\ pc'[w] = "unlock") =>
                  IF call'[w].err THEN pc[w] = "locked" ELSE pc[w] = "swap"]_vars

\* C25: Get and Has are read-only: a step of a reader changes none of
\* buckets, points, ring tree, collisions, fix queue, minWeight, maxWeight;
\* and what Get returns for a key changes only when a successful mutation
\* publishes its tree, so two Gets of one key with no successful mutation
\* between them return the same item.
C25_ReadOnly ==
    [][/\ (\E r \in Readers : pc'[r] # pc[r]) => UNCHANGED ringVars
       /\ (\A w \in Writers : ~(pc[w] = "swap" /\ pc'[w] = "unlock")) =>
              \A d \in KeyDigests :
                  getOutcomes(points', ring', d) = getOutcomes(points, ring, d)]_vars

DistinctValues(t) ==
    \A i, j \in 1..Len(t) : i # j => points[t[i]].val # points[t[j]].val

BucketPoints ==
    UNION {{buckets[k].points[i] : i \in 1..Len(buckets[k].points)} : k \in DOMAIN buckets}

\* C26: Uniqueness: in every state no two points of the working tree have
\* the same value and no two points of the published tree have the same
\* value; after every completed mutation the current values of all points of
\* all buckets are pairwise distinct.
C26_UniqueValues ==
    /\ panic = NoPanic => DistinctValues(root) /\ DistinctValues(ring)
    /\ Settled => \A p, q \in BucketPoints : p # q => points[p].val # points[q].val

Members(v) ==
    IF v \in DOMAIN collisions
    THEN {collisions[v][i] : i \in 1..Len(collisions[v])}
    ELSE {}

StackVals(p) == {points[p].stack[i] : i \in 1..Len(points[p].stack)}

InRoot(p) == \E i \in 1..Len(root) : root[i] = p

InFix(p) == \E i \in 1..Len(fix) : fix[i] = p

\* C27 as the spec states it: a point is a member of collisions[v] if and
\* only if its current value is v and at least two points claim v, and a
\* point of a bucket is in the ring tree exactly when it is neither in the
\* collisions map nor in the fix queue.
C27_CurrentValueOnly ==
    panic = NoPanic =>
        /\ \A p \in DOMAIN points : \A v \in 0..MaxValue :
               p \in Members(v) <=>
                   /\ points[p].val = v
                   /\ Cardinality({q \in DOMAIN points : points[q].val = v}) >= 2
        /\ \A p \in BucketPoints :
               InRoot(p) <=> ~(InFix(p) \/ \E v \in DOMAIN collisions : p \in Members(v))

\* C27 (amended): a point is a member of collisions[v] only if v is the value
\* of one of its generations: an earlier one (v is on the point's stack), or
\* the current one while the point waits in the fix queue.  A point is never
\* both in the ring tree and in the fix queue, and after a mutation returned
\* every point of every bucket is in the ring tree.
C27_CollisionSets ==
    /\ \A v \in DOMAIN collisions : \A p \in Members(v) :
           /\ p \in DOMAIN points
           /\ v \in StackVals(p) \/ (points[p].val = v /\ InFix(p))
    /\ \A p \in DOMAIN points : ~(InRoot(p) /\ InFix(p))
    /\ Settled => \A p \in BucketPoints : InRoot(p)

C27_Witness ==
    /\ Settled
    /\ ret # Nil
    /\ ret.op \in {"Insert", "Update", "Delete"}
    /\ ~ret.err
    /\ \E v \in DOMAIN collisions : \E p \in Members(v) :
           /\ p \in BucketPoints
           /\ InRoot(p)
           /\ points[p].val # v
           /\ v \in StackVals(p)

\* C28: When a mutation returns the fix queue is empty, and it is empty
\* between mutations; every fix-up takes the point at the front of the
\* queue, advances it by one generation and leaves it either in the ring
\* tree or in the fix queue again.
C28_FixQueueDrained ==
    /\ [](panic = NoPanic =>
            \A w \in Writers :
                pc[w] \in {"idle", "lock", "locked", "publish", "swap", "unlock"} =>
                    Len(fix) = 0)
    /\ [][\A w \in Writers :
            (pc[w] = "fix" /\ Len(fix) > 0 /\ panic' = NoPanic) =>
                LET p == Head(fix)
                IN /\ p \in DOMAIN points'
                   /\ Len(points'[p].stack) = Len(points[p].stack) + 1
                   /\ (\E i \in 1..Len(root') : root'[i] = p)
                          # (\E i \in 1..Len(fix') : fix'[i] = p)
                   /\ Len(fix') <= Len(fix) + 1]_vars

C28_Witness ==
    /\ Settled
    /\ ret # Nil
    /\ ret.op \in {"Insert", "Update", "Delete"}
    /\ ~ret.err
    /\ Len(fix) = 0
    /\ \E p \in BucketPoints : InRoot(p) /\ Len(points[p].stack) >= 2

\* C29: Every entry of the collisions map has at least 2 members, in every
\* state of a rebuild and so after every completed mutation: an entry is
\* created with the two colliding points and removed when a deletion leaves
\* it with fewer than 2.
C29_CollisionSetSize ==
    \A v \in DOMAIN collisions :
        /\ Len(collisions[v]) >= 2
        /\ Cardinality(Members(v)) = Len(collisions[v])

C29_Witness ==
    /\ Settled
    /\ ret # Nil
    /\ ret.op \in {"Update", "Delete"}
    /\ ~ret.err
    /\ collisions # <<>>
    /\ \E p \in BucketPoints : \E v \in StackVals(p) : v \notin DOMAIN collisions

\* C30: Every mutation terminates: a writer that has started rebuild reaches
\* its return with the fix queue empty and the working root published.  The
\* hash family gives every point a value of its own from generation MaxGen
\* on, so the proviso of the claim holds for every hash of the model.
C30_RebuildTerminates ==
    \A w \in MoreWriters :
        (pc[w] = "range") ~>
            (pc[w] = "unlock" /\ panic = NoPanic /\ Len(fix) = 0 /\ ring = root)

\* C31: insertPoint(tree, p), as called for a new point and for a point taken
\* from the fix queue: when there is no collision set at p's value but a
\* point d of the tree has that value, the tree afterwards holds neither d
\* nor p, collisions[value] holds exactly d and p, and d and then p are
\* appended to the fix queue; when the value is free, p is added to the
\* tree and collisions map and fix queue are unchanged.
C31_InsertPoint ==
    [][\A w \in Writers :
        LET grow == /\ pc[w] = "bucket"
                    /\ cur \in DOMAIN buckets'
                    /\ Len(buckets'[cur].points) > Len(buckets[cur].points)
            fixing == pc[w] = "fix" /\ Len(fix) > 0
            p == IF grow THEN buckets'[cur].points[Len(buckets'[cur].points)]
                 ELSE Head(fix)
            queue == IF grow THEN fix ELSE Tail(fix)
            v == points'[p].val
            ds == {d \in SeqSet(root) : points[d].val = v}
        IN ((grow \/ fixing) /\ panic' = NoPanic /\ v \notin DOMAIN collisions) =>
               IF ds = {}
               THEN /\ SeqSet(root') = SeqSet(root) \cup {p}
                    /\ Len(root') = Len(root) + 1
                    /\ collisions' = collisions
                    /\ fix' = queue
               ELSE \E d \in ds :
                    /\ SeqSet(root') = SeqSet(root) \ {d}
                    /\ p \notin SeqSet(root')
                    /\ DOMAIN collisions' = DOMAIN collisions \cup {v}
                    /\ Len(collisions'[v]) = 2
                    /\ SeqSet(collisions'[v]) = {d, p}
                    /\ \A u \in DOMAIN collisions : collisions'[u] = collisions[u]
                    /\ fix' = queue \o <<d, p>>]_vars

C31_Witness ==
    /\ panic = NoPanic
    /\ \E w \in Writers : pc[w] \in {"bucket", "fix"}
    /\ Len(fix) >= 2
    /\ Len(root) > 0
    /\ LET d == fix[Len(fix) - 1]
           p == fix[Len(fix)]
           v == points[p].val
       IN /\ d # p
          /\ d[1] # p[1]
          /\ points[d].val = v
          /\ v \in DOMAIN collisions
          /\ SeqSet(collisions[v]) = {d, p}
          /\ d \notin SeqSet(root)
          /\ p \notin SeqSet(root)

\* C32: Twin rollback: when a shrink step deletes a point p of the tree and
\* removing p from collisions[v], for a value v of an earlier generation of
\* p, leaves exactly one member t, then after deletePoint the twin t is
\* unwound to generation 0 and re-inserted: it is in the tree at its
\* generation-0 value, or it collided again there and waits in the fix queue
\* as a member of the collision set of that value.
C32_TwinRollback ==
    [][\A w \in Writers :
        LET shrink == /\ pc[w] = "bucket"
                      /\ cur \in DOMAIN buckets'
                      /\ Len(buckets'[cur].points) < Len(buckets[cur].points)
            p == buckets[cur].points[Len(buckets[cur].points)]
        IN (shrink /\ panic' = NoPanic /\ InRoot(p)) =>
               \A v \in StackVals(p) : \A t \in DOMAIN points :
                   (v \in DOMAIN collisions /\ SeqSet(collisions[v]) = {p, t}
                      /\ t # p /\ t \in BucketPoints') =>
                       /\ points'[t].stack = <<>>
                       /\ points'[t].val = digest(hash, t[1], encodeSuffix(0, t[2]))
                       /\ \/ /\ t \in SeqSet(root')
                             /\ t \notin SeqSet(fix')
                          \/ /\ t \notin SeqSet(root')
                             /\ t \in SeqSet(fix')
                             /\ points'[t].val \in DOMAIN collisions'
                             /\ t \in SeqSet(collisions'[points'[t].val])]_vars

\* C33: deletePoint(tree, p) for a point p that is not in the tree is a
\* no-op: the shrink step that drops such a point from its bucket leaves the
\* working tree, the collisions map, the fix queue and the value and the
\* generations of p as they were.
C33_DeleteAbsentPoint ==
    [][\A w \in Writers :
        LET shrink == /\ pc[w] = "bucket"
                      /\ cur \in DOMAIN buckets'
                      /\ Len(buckets'[cur].points) < Len(buckets[cur].points)
            p == buckets[cur].points[Len(buckets[cur].points)]
        IN (shrink /\ ~InRoot(p)) =>
               /\ root' = root
               /\ collisions' = collisions
               /\ fix' = fix
               /\ panic' = panic
               /\ p \in DOMAIN points'
               /\ points'[p] = points[p]
               /\ \A q \in DOMAIN points' : points'[q] = points[q]]_vars

C33_Witness ==
    /\ panic = NoPanic
    /\ \E w \in Writers : pc[w] = "bucket"
    /\ \E p \in SeqSet(fix) :
           /\ p \notin BucketPoints
           /\ p \notin SeqSet(root)
           /\ p[1] = buckets[cur].item
           /\ points[p].val \in DOMAIN collisions
           /\ p \in SeqSet(collisions[points[p].val])

\* C34: In every state between the steps of a rebuild the current value of
\* every point is digest(item, suffix(g, index)) for its generation g and
\* the k-th entry of its stack is digest(item, suffix(k, index)) for every
\* k < g; a point is created at generation 0, and only the fix step raises
\* a generation, that of the point at the front of the fix queue, by one.
C34_ValueOfGeneration ==
    /\ [](\A p \in DOMAIN points :
            /\ points[p].val =
                   digest(hash, p[1], encodeSuffix(Len(points[p].stack), p[2]))
            /\ \A k \in 1..Len(points[p].stack) :
                   points[p].stack[k] = digest(hash, p[1], encodeSuffix(k - 1, p[2])))
    /\ [][\A p \in DOMAIN points' :
            IF p \notin DOMAIN points
            THEN points'[p].stack = <<>>
            ELSE Len(points'[p].stack) > Len(points[p].stack) =>
                     /\ \E w \in Writers : pc[w] = "fix"
                     /\ Len(fix) > 0
                     /\ p = Head(fix)
                     /\ Len(points'[p].stack) = Len(points[p].stack) + 1]_vars

C34_Witness ==
    /\ panic = NoPanic
    /\ \E w \in Writers : pc[w] \in {"bucket", "fix"}
    /\ \E p, q \in DOMAIN points :
           /\ Len(points[p].stack) = 2
           /\ points[p].stack[1] # points[p].stack[2]
           /\ points[p].val # points[p].stack[2]
           /\ q[1] # p[1]
           /\ Len(points[q].stack) = 1

\* C35: In every bucket the point list is contiguous: the point at position
\* i is the point of index i of the bucket's item, a step changes a list
\* only by appending the point of index len(points) or by removing the last
\* point, so a bucket with n points owns exactly the indices 0..n-1.
C35_ContiguousIndices ==
    /\ [](\A id \in DOMAIN buckets :
            \A i \in 1..Len(buckets[id].points) :
                /\ buckets[id].points[i][1] = buckets[id].item
                /\ buckets[id].points[i][2] = i - 1)
    /\ [][\A id \in DOMAIN buckets \cap DOMAIN buckets' :
            LET old == buckets[id].points
                new == buckets'[id].points
            IN \/ new = old
               \/ /\ Len(new) = Len(old) + 1
                  /\ SubSeq(new, 1, Len(old)) = old
                  /\ new[Len(new)][2] = Len(old)
               \/ /\ Len(new) = Len(old) - 1
                  /\ new = SubSeq(old, 1, Len(new))]_vars

C35_Witness ==
    /\ panic = NoPanic
    /\ \E w \in Writers : pc[w] = "bucket"
    /\ cur \in DOMAIN buckets
    /\ Len(buckets[cur].points) = 1
    /\ \E p \in DOMAIN points : p[1] = buckets[cur].item /\ p[2] = 1
    /\ \E id \in DOMAIN buckets : Len(buckets[id].points) = 2

\* C36: After every completed mutation the points of the published ring
\* tree are exactly the points of the point lists of the buckets of the
\* buckets map: no point of a bucket is missing from the tree, and no point
\* that was removed from its bucket, or whose bucket was deleted, is in it.
C36_TreeIsBucketPoints ==
    Settled =>
        /\ BucketPoints \subseteq SeqSet(ring)
        /\ SeqSet(ring) \subseteq BucketPoints

\* C37: No sequence of Insert, Update and Delete calls reaches an
\* internal-error panic, for any hash function: not the one of mustInsertTree
\* (the point is already in the collision set), not the one of
\* mustDeleteTree (the rewound point is not in the set of that value), not
\* the one of insertPoint (the colliding point is not deletable), not the
\* nil collision set of deletePoint and not the one of line (malformed
\* points).  The panic of a call with a weight of zero is not one of them.
InternalErrors ==
    { "hashring: internal error: mustInsert failed",
      "hashring: internal error: mustDelete failed",
      "hashring: internal error",
      "interface conversion: interface is nil",
      "hashring: internal error: malformed points" }

C37_NoInternalError == panic \notin InternalErrors

\* C38: Reserved values.  In every state of a rebuild, no point of the tree
\* under construction has a value for which the collisions map has a
\* non-empty entry, and after the rebuild no point of the published ring
\* tree has one.  A point that arrives at such a value, new in the grow loop
\* or advanced by the fix step, is added to that entry and to the end of the
\* fix queue; the tree and the other entries stay as they are.
Reserved(t) ==
    \A v \in DOMAIN collisions :
        Len(collisions[v]) > 0 => \A q \in SeqSet(t) : points[q].val # v

C38_ReservedValues ==
    /\ [](Reserved(root) /\ (Settled => Reserved(ring)))
    /\ [][\A w \in Writers :
            LET grow == /\ pc[w] = "bucket"
                        /\ cur \in DOMAIN buckets /\ cur \in DOMAIN buckets'
                        /\ Len(buckets'[cur].points) > Len(buckets[cur].points)
                fixing == pc[w] = "fix" /\ Len(fix) > 0
                p == IF grow
                     THEN buckets'[cur].points[Len(buckets'[cur].points)]
                     ELSE Head(fix)
                queue == IF grow THEN fix ELSE Tail(fix)
                v == points'[p].val
            IN ((grow \/ fixing) /\ panic' = NoPanic
                    /\ v \in DOMAIN collisions) =>
                   /\ root' = root
                   /\ fix' = Append(queue, p)
                   /\ DOMAIN collisions' = DOMAIN collisions
                   /\ SeqSet(collisions'[v]) = SeqSet(collisions[v]) \cup {p}
                   /\ Len(collisions'[v]) = Len(collisions[v]) + 1
                   /\ \A u \in DOMAIN collisions \ {v} :
                          collisions'[u] = collisions[u]]_vars

\* A third point has arrived at a reserved value: it is the last of the fix
\* queue and a member of the set, and the tree under construction has points.
C38_Witness ==
    /\ panic = NoPanic
    /\ Len(fix) > 0 /\ Len(root) > 0
    /\ LET p == fix[Len(fix)]
           v == points[p].val
       IN /\ v \in DOMAIN collisions
          /\ Len(collisions[v]) >= 3
          /\ p \in SeqSet(collisions[v])

\* C39: After every completed mutation every item present on the ring with
\* a positive weight owns at least one point of the published ring tree,
\* whatever the ratio of its weight to the largest weight.
C39_EveryItemOwnsPoint ==
    Settled =>
        \A id \in DOMAIN buckets :
            buckets[id].weight > 0 =>
                \E i \in 1..Len(ring) : ring[i][1] = buckets[id].item

====
